---- MODULE Spec2Model ----
(***************************************************************************)
(* llm-cmd (src/llm_cmd.py): an instruction is turned into a prompt        *)
(* (environment + shell history + instruction), sent to a language model,  *)
(* the reply is stripped of an enclosing code fence, shown to the user in  *)
(* an editable field, and the confirmed text is run in a shell.            *)
(*                                                                         *)
(* Texts are sequences of characters (strings); the bytes a command        *)
(* writes are sequences of integers 0..255.                                *)
(***************************************************************************)
EXTENDS Integers, Sequences, FiniteSets

VARIABLES
  pc,           \* position of the invocation
  instruction,  \* " ".join(args)
  environ,      \* os.environ restricted to the variables the program reads
  histfile,     \* the history file: [readable, lines]
  histN,        \* the n handed to shell_history_context
  collected,    \* what shell_history_context returned
  prompt,       \* the prompt text sent to the model
  reply,        \* str(result): the model's raw reply
  body,         \* the body lines a fenced reply was built from
  command,      \* clean_codeblock(reply): the sanitized command
  field,        \* which input field is open: "none", "single", "multi"
  prefill,      \* the text the field opens with (default=command)
  edited,       \* the text prompt() returned
  confirmed,    \* prompt() has returned
  aborted,      \* prompt() has raised (KeyboardInterrupt / EOFError)
  executed,     \* the texts handed to subprocess.check_output, in order
  status,       \* exit status of the command
  captured,     \* bytes of the command's combined stdout/stderr
  out,          \* what print() wrote, in order
  raised,       \* the exception that ended the invocation, or "none"
  trace         \* the components entered, in order

vars == <<pc, instruction, environ, histfile, histN, collected, prompt, reply,
          body, command, field, prefill, edited, confirmed, aborted, executed, status,
          captured, out, raised, trace>>

----------------------------------------------------------------------------
(* Bounds *)

MaxReplyTokens == 3
MaxTextTokens == 5
MaxBodyLines == 2
MaxLineTokens == 2
MaxFileLines == 5
MaxN == 4
MaxPromptFileLines == 2
MaxStatus == 2
MaxOutBytes == 2

----------------------------------------------------------------------------
(* Characters and generic text helpers *)

\* the backquote character (written "BQ": a string cannot hold a backquote here)
BT == "BQ"
NL == "\n"
CR == "\r"
SP == " "

Min(a, b) == IF a < b THEN a ELSE b

\* str.startswith
StartsWith(s, p) == Len(s) >= Len(p) /\ SubSeq(s, 1, Len(p)) = p

\* the characters str.strip() removes (those of the alphabet used here)
Whitespace == {SP, NL, CR, "\t"}

RECURSIVE lstrip(_)
lstrip(s) ==
  IF s # <<>> /\ Head(s) \in Whitespace THEN lstrip(Tail(s)) ELSE s

RECURSIVE rstrip(_)
rstrip(s) ==
  IF s # <<>> /\ s[Len(s)] \in Whitespace
  THEN rstrip(SubSeq(s, 1, Len(s) - 1)) ELSE s

\* str.strip()
strip(s) == rstrip(lstrip(s))

\* sep.join(parts)
RECURSIVE join(_, _)
join(sep, parts) ==
  IF parts = <<>> THEN <<>>
  ELSE IF Len(parts) = 1 THEN parts[1]
  ELSE parts[1] \o sep \o join(sep, Tail(parts))

\* str.splitlines(): a line ends at "\n", "\r" or "\r\n"; the terminators are
\* dropped and a text that ends with a terminator has no empty last line.
\* (Python also splits at \v, \f, \x1c-\x1e, \x85 and the Unicode line and
\* paragraph separators, which are not in the alphabet used here.)
RECURSIVE splitfrom(_, _, _, _)
splitfrom(text, i, cur, acc) ==
  IF i > Len(text)
  THEN IF cur # <<>> THEN Append(acc, cur) ELSE acc
  ELSE IF text[i] = NL
       THEN splitfrom(text, i + 1, <<>>, Append(acc, cur))
  ELSE IF text[i] = CR
       THEN IF i < Len(text) /\ text[i + 1] = NL
            THEN splitfrom(text, i + 2, <<>>, Append(acc, cur))
            ELSE splitfrom(text, i + 1, <<>>, Append(acc, cur))
  ELSE splitfrom(text, i + 1, Append(cur, text[i]), acc)

splitlines(text) == splitfrom(text, 1, <<>>, <<>>)

\* str(n) for n >= 0
Digit(d) ==
  CASE d = 0 -> "0" [] d = 1 -> "1" [] d = 2 -> "2" [] d = 3 -> "3"
    [] d = 4 -> "4" [] d = 5 -> "5" [] d = 6 -> "6" [] d = 7 -> "7"
    [] d = 8 -> "8" [] d = 9 -> "9"

RECURSIVE str(_)
str(n) ==
  IF n < 10 THEN <<Digit(n)>> ELSE str(n \div 10) \o <<Digit(n % 10)>>

\* number of places where sub occurs in s
Count(sub, s) ==
  Cardinality({i \in 1..Len(s) :
                 i + Len(sub) - 1 <= Len(s)
                 /\ SubSeq(s, i, i + Len(sub) - 1) = sub})

\* the first place where sub occurs in s (0: nowhere)
FirstAt(sub, s) ==
  LET at == {i \in 1..Len(s) :
               i + Len(sub) - 1 <= Len(s)
               /\ SubSeq(s, i, i + Len(sub) - 1) = sub}
  IN IF at = {} THEN 0 ELSE CHOOSE i \in at : \A j \in at : i <= j

RECURSIVE Flatten(_)
Flatten(ss) == IF ss = <<>> THEN <<>> ELSE Head(ss) \o Flatten(Tail(ss))

SeqsUpTo(S, k) == UNION {[1..m -> S] : m \in 0..k}

----------------------------------------------------------------------------
(* Response Sanitizer *)

Fence == <<BT, BT, BT>>

\* a faulty variant of codeblock_lines: the closing fence line is kept
codeblock_lines_keep_last(text) ==
  LET lines == splitlines(text)
  IN IF lines # <<>> /\ StartsWith(lines[1], Fence)
        /\ StartsWith(lines[Len(lines)], Fence)
     THEN SubSeq(lines, 2, Len(lines))
     ELSE lines

\* a faulty variant of codeblock_lines: the first line alone decides
codeblock_lines_first_fence(text) ==
  LET lines == splitlines(text)
  IN IF lines # <<>> /\ StartsWith(lines[1], Fence)
     THEN SubSeq(lines, 2, Len(lines) - 1)
     ELSE lines

\* a faulty variant of codeblock_lines: a fence needs an opening and a closing line
codeblock_lines_two_lines(text) ==
  LET lines == splitlines(text)
  IN IF Len(lines) >= 2 /\ StartsWith(lines[1], Fence)
        /\ StartsWith(lines[Len(lines)], Fence)
     THEN SubSeq(lines, 2, Len(lines) - 1)
     ELSE lines

\* the lines clean_codeblock keeps (lines 100-102)
codeblock_lines(text) ==
  LET lines == splitlines(text)
  IN IF lines # <<>> /\ StartsWith(lines[1], Fence)
        /\ StartsWith(lines[Len(lines)], Fence)
     THEN SubSeq(lines, 2, Len(lines) - 1)
     ELSE lines

clean_codeblock(text) == join(<<NL>>, codeblock_lines(text))

----------------------------------------------------------------------------
(* Context Collector *)

ENV_VARS_CONTEXT == <<"SHELL", "USER", "HOME", "PWD">>
N_SHELL_HISTORY_LINES == 3

\* the characters of a variable's name
NameChars(var) ==
  CASE var = "SHELL" -> <<"S", "H", "E", "L", "L">>
    [] var = "USER" -> <<"U", "S", "E", "R">>
    [] var = "HOME" -> <<"H", "O", "M", "E">>
    [] var = "PWD" -> <<"P", "W", "D">>

\* deque(f, maxlen=n): one forward scan; a full buffer drops its oldest item
RECURSIVE deque_fill(_, _, _)
deque_fill(items, n, buf) ==
  IF items = <<>> THEN buf
  ELSE LET b == Append(buf, Head(items))
       IN deque_fill(Tail(items), n, IF Len(b) > n THEN Tail(b) ELSE b)

\* a faulty variant of tail: the buffer keeps its first n items
RECURSIVE deque_keep_first(_, _, _)
deque_keep_first(items, n, buf) ==
  IF items = <<>> THEN buf
  ELSE deque_keep_first(Tail(items), n,
                        IF Len(buf) < n THEN Append(buf, Head(items)) ELSE buf)

tail_first(lines, n) == deque_keep_first(lines, n, <<>>)

\* tail(filename, n), of a file that opened: lines are the file's lines, each
\* with its line terminator
tail(lines, n) == deque_fill(lines, n, <<>>)

\* shell_history_context(n, history_file), of a file that opened
shell_history_context(n, lines) ==
  LET t == tail(lines, n) IN [i \in 1..Len(t) |-> strip(t[i])]

\* env_var_context(env_vars): env is os.environ, a function from the names
\* that are set to their values
RECURSIVE env_var_context(_, _)
env_var_context(env_vars, env) ==
  IF env_vars = <<>> THEN <<>>
  ELSE LET var == Head(env_vars)
           rest == env_var_context(Tail(env_vars), env)
       IN IF var \in DOMAIN env
          THEN <<NameChars(var) \o <<"=">> \o strip(env[var])>> \o rest
          ELSE rest

----------------------------------------------------------------------------
(* Prompt Builder *)

EnvMarker == <<"#", SP, "e", "n", "v">>
HistoryWord == <<"#", SP, "h", "i", "s", "t", "o", "r", "y", SP>>
HistoryMarker == HistoryWord \o str(N_SHELL_HISTORY_LINES)
NowMarker == <<"#", SP, "n", "o", "w", ":">>

\* a faulty variant of generate_context_prompt: an empty history block drops its header
prompt_without_empty_history(user_prompt, env, shell_history_lines) ==
  LET env_vars == join(<<NL>>, env_var_context(ENV_VARS_CONTEXT, env))
      shell_history == join(<<NL>>, shell_history_lines)
  IN strip(EnvMarker \o <<NL>> \o env_vars
           \o (IF shell_history_lines = <<>> THEN <<>>
               ELSE <<NL>> \o HistoryMarker \o <<NL>> \o shell_history)
           \o <<NL>> \o NowMarker \o <<SP>> \o user_prompt)

\* generate_context_prompt(user_prompt), given os.environ and the result of
\* shell_history_context(n=N_SHELL_HISTORY_LINES)
generate_context_prompt(user_prompt, env, shell_history_lines) ==
  LET env_vars == join(<<NL>>, env_var_context(ENV_VARS_CONTEXT, env))
      shell_history == join(<<NL>>, shell_history_lines)
  IN strip(EnvMarker \o <<NL>> \o env_vars \o <<NL>>
           \o HistoryMarker \o <<NL>> \o shell_history \o <<NL>>
           \o NowMarker \o <<SP>> \o user_prompt)

----------------------------------------------------------------------------
(* bytes.decode(): strict UTF-8 *)

IsContinuation(b) == b >= 128 /\ b <= 191

\* how many continuation bytes follow lead byte b (-1: b cannot lead)
Following(b) ==
  IF b < 128 THEN 0
  ELSE IF b >= 194 /\ b <= 223 THEN 1
  ELSE IF b >= 224 /\ b <= 239 THEN 2
  ELSE IF b >= 240 /\ b <= 244 THEN 3
  ELSE -1

\* the second byte's range is narrower after E0, ED, F0 and F4
SecondOk(b, c) ==
  /\ (b = 224 => c >= 160)
  /\ (b = 237 => c <= 159)
  /\ (b = 240 => c >= 144)
  /\ (b = 244 => c <= 143)

RECURSIVE CodePoint(_, _, _, _)
CodePoint(bs, i, n, acc) ==
  IF n = 0 THEN acc ELSE CodePoint(bs, i + 1, n - 1, acc * 64 + (bs[i] - 128))

LeadBits(b) ==
  IF b < 128 THEN b
  ELSE IF b <= 223 THEN b - 192
  ELSE IF b <= 239 THEN b - 224
  ELSE b - 240

\* [ok, text]: text is the sequence of code points; ok is FALSE where Python
\* raises UnicodeDecodeError
RECURSIVE decode_from(_, _)
decode_from(bs, i) ==
  IF i > Len(bs) THEN [ok |-> TRUE, text |-> <<>>]
  ELSE LET b == bs[i]
           n == Following(b)
       IN IF \/ n < 0
             \/ i + n > Len(bs)
             \/ \E k \in 1..n : ~IsContinuation(bs[i + k])
             \/ (n >= 1 /\ ~SecondOk(b, bs[i + 1]))
          THEN [ok |-> FALSE, text |-> <<>>]
          ELSE LET rest == decode_from(bs, i + n + 1)
               IN IF rest.ok
                  THEN [ok |-> TRUE,
                        text |-> <<CodePoint(bs, i + 1, n, LeadBits(b))>>
                                 \o rest.text]
                  ELSE rest

decode(bs) == decode_from(bs, 1)

----------------------------------------------------------------------------
(* Inputs *)

\* the model's replies: up to MaxReplyTokens pieces
ReplyTokens == {Fence, <<"a">>, <<NL>>}
Replies == {Flatten(ts) : ts \in SeqsUpTo(ReplyTokens, MaxReplyTokens)}

\* texts handed to the sanitizer on its own: up to MaxTextTokens pieces
TextTokens == {Fence, <<"a">>, <<NL>>, <<CR>>, <<BT>>}
Texts == {Flatten(ts) : ts \in SeqsUpTo(TextTokens, MaxTextTokens)}

\* body lines of a fenced reply: up to MaxLineTokens pieces, none a line break
LineTokens == {Fence, <<"a">>, <<SP>>}
BodyLines == {Flatten(ts) : ts \in SeqsUpTo(LineTokens, MaxLineTokens)}
Bodies == SeqsUpTo(BodyLines, MaxBodyLines) \ {<<>>}

\* ["```"] + L + ["```"], joined by newlines
Wrap(L) == join(<<NL>>, <<Fence>> \o L \o <<Fence>>)

\* what the user may leave in the field besides the pre-filled text
UserTexts == {<<"b">>, <<"b", NL, "b">>}

\* bytes a command may write: "a", and the two bytes of U+00E9
Bytes == {97, 195, 169}
ByteSeqs == SeqsUpTo(Bytes, MaxOutBytes)

\* lines of a history file, each with its terminator
RawLines == {<<"a", NL>>, <<SP, "b", SP, NL>>, <<"c", NL>>}
HistoryFiles == SeqsUpTo(RawLines, MaxFileLines)

PromptRawLines == {<<"l", "s", NL>>, EnvMarker \o <<NL>>}
PromptHistoryFiles == SeqsUpTo(PromptRawLines, MaxPromptFileLines)
PromptInstructions == {<<"l", "s">>, <<>>, NowMarker \o <<SP, "x">>}
EnvValues == {<<"x">>, <<SP, "y">>}
EnvNames == {ENV_VARS_CONTEXT[i] : i \in DOMAIN ENV_VARS_CONTEXT}
Environs == UNION {[D -> EnvValues] : D \in SUBSET EnvNames}

File(lines) == [readable |-> TRUE, lines |-> lines]
Unreadable == [readable |-> FALSE, lines |-> <<>>]

SampleInstruction == <<"l", "s">>
SampleEnviron == [v \in {"USER"} |-> <<"x">>]
SampleFile == File(<<<<"l", "s", NL>>>>)

----------------------------------------------------------------------------
(* The invocation: cmd and interactive_exec *)

Notice == [kind |-> "notice", status |-> 0, text |-> <<>>]
Output(text) == [kind |-> "output", status |-> 0, text |-> text]
Failure(rc, text) == [kind |-> "failure", status |-> rc, text |-> text]

InTrace(x) == \E i \in DOMAIN trace : trace[i] = x
Times(x) == Cardinality({i \in DOMAIN trace : trace[i] = x})

Fresh ==
  /\ collected = <<>> /\ prompt = <<>> /\ reply = <<>> /\ body = <<>>
  /\ command = <<>> /\ field = "none" /\ prefill = <<>> /\ edited = <<>>
  /\ confirmed = FALSE /\ aborted = FALSE /\ executed = <<>>
  /\ status = 0 /\ captured = <<>> /\ out = <<>> /\ raised = "none"
  /\ trace = <<>>

Init ==
  /\ pc = "Idle"
  /\ instruction \in {SampleInstruction, <<>>}
  /\ environ \in {SampleEnviron, <<>>}
  /\ histfile \in {SampleFile, Unreadable}
  /\ histN = N_SHELL_HISTORY_LINES
  /\ Fresh

\* lines 50-51: the prompt is built; open() raising ends the invocation
BuildPrompt ==
  /\ pc = "Idle"
  /\ histN' = N_SHELL_HISTORY_LINES
  /\ IF histfile.readable
     THEN /\ collected' = shell_history_context(histN', histfile.lines)
          /\ prompt' = generate_context_prompt(instruction, environ, collected')
          /\ trace' = trace \o <<"context", "prompt">>
          /\ pc' = "Prompted"
          /\ raised' = raised
     ELSE /\ trace' = trace \o <<"context">>
          /\ pc' = "Error"
          /\ raised' = "FileAccessError"
          /\ UNCHANGED <<collected, prompt>>
  /\ UNCHANGED <<instruction, environ, histfile, reply, body, command, field,
                 prefill, edited, confirmed, aborted, executed, status, captured, out>>

\* lines 53-60: the model answers
ModelReplies ==
  /\ pc = "Prompted"
  /\ \E r \in Replies : reply' = r
  /\ trace' = Append(trace, "model")
  /\ pc' = "Replied"
  /\ UNCHANGED <<instruction, environ, histfile, histN, collected, prompt,
                 body, command, field, prefill, edited, confirmed, aborted, executed,
                 status, captured, out, raised>>

\* a faulty variant of ModelFails: the failure is swallowed and an empty reply goes on
ModelFails_swallowed ==
  /\ pc = "Prompted"
  /\ trace' = Append(trace, "model")
  /\ raised' = "ModelInvocationError"
  /\ reply' = <<>>
  /\ pc' = "Replied"
  /\ UNCHANGED <<instruction, environ, histfile, histN, collected, prompt,
                 body, command, field, prefill, edited, confirmed, aborted, executed,
                 status, captured, out>>

\* lines 53-60: the model call raises; nothing in cmd catches it
ModelFails ==
  /\ pc = "Prompted"
  /\ trace' = Append(trace, "model")
  /\ raised' = "ModelInvocationError"
  /\ pc' = "Error"
  /\ UNCHANGED <<instruction, environ, histfile, histN, collected, prompt,
                 reply, body, command, field, prefill, edited, confirmed,
                 aborted, executed, status, captured, out>>

\* line 60
Sanitize ==
  /\ pc = "Replied"
  /\ command' = clean_codeblock(reply)
  /\ trace' = Append(trace, "sanitizer")
  /\ pc' = "Sanitized"
  /\ UNCHANGED <<instruction, environ, histfile, histN, collected, prompt,
                 reply, body, field, prefill, edited, confirmed, aborted, executed,
                 status, captured, out, raised>>

\* a faulty variant of is_multiline: never multi-line
is_multiline_never(text) == FALSE

\* line 128: "\n" in command
is_multiline(text) == \E i \in DOMAIN text : text[i] = NL

\* lines 128-134, up to the call of prompt(): the notice, then the field opens
ExecBegin ==
  /\ pc = "Sanitized"
  /\ IF is_multiline(command)
     THEN out' = Append(out, Notice) /\ field' = "multi"
     ELSE out' = out /\ field' = "single"
  /\ prefill' = command
  /\ trace' = Append(trace, "edit")
  /\ pc' = "Editing"
  /\ UNCHANGED <<instruction, environ, histfile, histN, collected, prompt,
                 reply, body, command, edited, confirmed, aborted, executed,
                 status, captured, raised>>

\* lines 130-134: prompt() returns the text the user confirmed
PromptConfirm ==
  /\ pc = "Editing"
  /\ \E e \in {prefill} \cup UserTexts : edited' = e
  /\ confirmed' = TRUE
  /\ pc' = "Executing"
  /\ UNCHANGED <<instruction, environ, histfile, histN, collected, prompt,
                 reply, body, command, field, prefill, aborted, executed,
                 status, captured, out, raised, trace>>

\* a faulty variant of PromptAbort: the abort is caught and the candidate goes on
PromptAbort_caught ==
  /\ pc = "Editing"
  /\ aborted' = TRUE
  /\ edited' = prefill
  /\ pc' = "Executing"
  /\ UNCHANGED <<instruction, environ, histfile, histN, collected, prompt,
                 reply, body, command, field, prefill, confirmed, executed, status,
                 captured, out, raised, trace>>

\* lines 130-134: prompt() raises (the user aborts); nothing catches it
PromptAbort ==
  /\ pc = "Editing"
  /\ aborted' = TRUE
  /\ raised' = "KeyboardInterrupt"
  /\ pc' = "Aborted"
  /\ UNCHANGED <<instruction, environ, histfile, histN, collected, prompt,
                 reply, body, command, field, prefill, edited, confirmed,
                 executed, status, captured, out, trace>>

\* a faulty variant of shell_input: the candidate is run, not the confirmed text
shell_input_candidate(candidate, edited_command) == candidate

\* line 137: the first argument of check_output
shell_input(candidate, edited_command) == edited_command

\* lines 135-143: the command runs once; its output or its failure is printed.
\* decode() raising is caught by nothing (CalledProcessError alone is caught)
RunCommand ==
  /\ pc = "Executing"
  /\ executed' = Append(executed, shell_input(command, edited))
  /\ trace' = Append(trace, "shell")
  /\ \E rc \in 0..MaxStatus, bs \in ByteSeqs :
       /\ status' = rc
       /\ captured' = bs
       /\ LET d == decode(bs)
          IN IF ~d.ok
             THEN /\ out' = out
                  /\ raised' = "UnicodeDecodeError"
                  /\ pc' = "Error"
             ELSE /\ raised' = raised
                  /\ IF rc = 0
                     THEN out' = Append(out, Output(d.text))
                          /\ pc' = "ReportedSuccess"
                     ELSE out' = Append(out, Failure(rc, d.text))
                          /\ pc' = "ReportedFailure"
  /\ UNCHANGED <<instruction, environ, histfile, histN, collected, prompt,
                 reply, body, command, field, prefill, edited, confirmed,
                 aborted>>

Next ==
  \/ BuildPrompt
  \/ ModelReplies
  \/ ModelFails
  \/ Sanitize
  \/ ExecBegin
  \/ PromptConfirm
  \/ PromptAbort
  \/ RunCommand

Spec == Init /\ [][Next]_vars

----------------------------------------------------------------------------
(* The prompt builder on its own: every environment, history and instruction *)

InitPrompt ==
  /\ pc = "Idle"
  /\ instruction \in PromptInstructions
  /\ environ \in Environs
  /\ histfile \in {File(l) : l \in PromptHistoryFiles} \cup {Unreadable}
  /\ histN = N_SHELL_HISTORY_LINES
  /\ Fresh

NextPrompt == BuildPrompt

SpecPrompt == InitPrompt /\ [][NextPrompt]_vars

----------------------------------------------------------------------------
(* shell_history_context on its own: every n and every file *)

InitHistory ==
  /\ pc = "Idle"
  /\ instruction = SampleInstruction
  /\ environ = SampleEnviron
  /\ histfile \in {File(l) : l \in HistoryFiles} \cup {Unreadable}
  /\ histN \in 0..MaxN
  /\ Fresh

\* shell_history_context(n=histN, history_file=histfile), lines 86-90
CollectHistory ==
  /\ pc = "Idle"
  /\ IF histfile.readable
     THEN /\ collected' = shell_history_context(histN, histfile.lines)
          /\ pc' = "Collected"
          /\ raised' = raised
     ELSE /\ collected' = collected
          /\ pc' = "Error"
          /\ raised' = "FileAccessError"
  /\ trace' = Append(trace, "context")
  /\ UNCHANGED <<instruction, environ, histfile, histN, prompt, reply, body,
                 command, field, prefill, edited, confirmed, aborted,
                 executed, status, captured, out>>

NextHistory == CollectHistory

SpecHistory == InitHistory /\ [][NextHistory]_vars

----------------------------------------------------------------------------
(* The sanitizer and the opening of the field, from every reply *)

AfterModel ==
  /\ pc = "Replied"
  /\ instruction = SampleInstruction
  /\ environ = SampleEnviron
  /\ histfile = SampleFile
  /\ histN = N_SHELL_HISTORY_LINES
  /\ collected = shell_history_context(histN, histfile.lines)
  /\ prompt = generate_context_prompt(instruction, environ, collected)
  /\ command = <<>> /\ field = "none" /\ prefill = <<>> /\ edited = <<>>
  /\ confirmed = FALSE /\ aborted = FALSE /\ executed = <<>>
  /\ status = 0 /\ captured = <<>> /\ out = <<>> /\ raised = "none"
  /\ trace = <<"context", "prompt", "model">>

InitSanitize ==
  /\ reply \in Texts
  /\ body = <<>>
  /\ AfterModel

\* the reply is a fenced block around the body lines
InitRoundTrip ==
  /\ body \in Bodies
  /\ reply = Wrap(body)
  /\ AfterModel

NextSanitize == Sanitize \/ ExecBegin

SpecSanitize == InitSanitize /\ [][NextSanitize]_vars

SpecRoundTrip == InitRoundTrip /\ [][NextSanitize]_vars

----------------------------------------------------------------------------
(* Properties *)

Before(x, y) ==
  \E i, j \in DOMAIN trace : i < j /\ trace[i] = x /\ trace[j] = y

HasBreak(text) == \E i \in DOMAIN text : text[i] \in {NL, CR}

Printed(kind) == Cardinality({i \in DOMAIN out : out[i].kind = kind})

\* C1: a command is run only after the edit step was entered and the user
\* confirmed, and the text run is exactly the confirmed text, for single-line
\* and multi-line candidates alike.
C1_EditBeforeExecute ==
  (executed # <<>> \/ InTrace("shell")) =>
    /\ confirmed
    /\ ~aborted
    /\ field \in {"single", "multi"}
    /\ Before("edit", "shell")
    /\ executed = <<edited>>

C1_Witness ==
  /\ pc = "ReportedSuccess"
  /\ field = "multi"
  /\ edited # command
  /\ executed = <<edited>>

\* C2 as stated: after an abort of the edit step no command has run and
\* nothing at all has been printed.
C2_AbortPrintsNothing ==
  aborted => /\ pc = "Aborted"
             /\ executed = <<>>
             /\ out = <<>>

\* C2 amended: after an abort of the edit step the invocation is over, no
\* command has run, and nothing has been printed but the multi-line notice,
\* which a multi-line command had printed before the field opened.
C2_AbortRunsNothing ==
  aborted => /\ pc = "Aborted"
             /\ ~ENABLED Next
             /\ executed = <<>>
             /\ ~InTrace("shell")
             /\ out = (IF HasBreak(command) THEN <<Notice>> ELSE <<>>)

C2_Witness ==
  /\ aborted
  /\ pc = "Aborted"
  /\ field = "multi"
  /\ out = <<Notice>>

\* C3: a command that exits non-zero gets exactly one failure message with
\* its exit status and its captured output, is run once, and the executor
\* returns normally (Reported-Failure); a command that exits zero gets its
\* captured output printed and nothing else (Reported-Success).
C3_OutcomeReported ==
  InTrace("shell") =>
    /\ Len(executed) = 1
    /\ raised = "none"
    /\ IF status # 0
       THEN /\ pc = "ReportedFailure"
            /\ Printed("failure") = 1
            /\ Printed("output") = 0
            /\ out[Len(out)] = Failure(status, decode(captured).text)
       ELSE /\ pc = "ReportedSuccess"
            /\ Printed("failure") = 0
            /\ Printed("output") = 1
            /\ out[Len(out)] = Output(decode(captured).text)

\* C4: a failed model call ends the invocation at once: one model call, no
\* sanitizer, no edit step, no command.
C4_ModelFailureEnds ==
  raised = "ModelInvocationError" =>
    /\ pc = "Error"
    /\ ~ENABLED Next
    /\ Times("model") = 1
    /\ ~InTrace("sanitizer")
    /\ ~InTrace("edit")
    /\ ~InTrace("shell")
    /\ field = "none"
    /\ executed = <<>>

C4_Witness ==
  /\ raised = "ModelInvocationError"
  /\ pc = "Error"
  /\ prompt # <<>>

\* C5: for n >= 0 and a file of m lines, shell_history_context returns
\* min(n, m) entries: the last min(n, m) lines, oldest first, each trimmed;
\* never more than n.
C5_LastLinesTrimmed ==
  pc = "Collected" =>
    LET m == Len(histfile.lines)
        k == Min(histN, m)
    IN /\ Len(collected) = k
       /\ Len(collected) <= histN
       /\ \A i \in 1..k :
            /\ collected[i] = strip(histfile.lines[m - k + i])
            /\ collected[i] = <<>>
               \/ (Head(collected[i]) \notin Whitespace
                   /\ collected[i][Len(collected[i])] \notin Whitespace)

C5_Witness ==
  /\ pc = "Collected"
  /\ histN = 3
  /\ histfile.lines = <<<<"a", NL>>, <<"a", NL>>, <<"c", NL>>,
                        <<SP, "b", SP, NL>>, <<"a", NL>>>>
  /\ collected = <<<<"c">>, <<"b">>, <<"a">>>>

Markers == {EnvMarker, HistoryMarker, NowMarker}

Occurs(sub, s) == Count(sub, s) > 0

\* place i of s starts a line that is exactly `line`
LineAt(line, s, i) ==
  /\ i >= 1
  /\ i + Len(line) - 1 <= Len(s)
  /\ SubSeq(s, i, i + Len(line) - 1) = line
  /\ (i = 1 \/ s[i - 1] = NL)
  /\ (i + Len(line) - 1 = Len(s) \/ s[i + Len(line)] = NL)

\* place i of s starts a line that begins with `start`
LineStartAt(start, s, i) ==
  /\ i >= 1
  /\ i + Len(start) - 1 <= Len(s)
  /\ SubSeq(s, i, i + Len(start) - 1) = start
  /\ (i = 1 \/ s[i - 1] = NL)

\* no marker text in any environment value, history line or the instruction
PlainContent ==
  \A mk \in Markers :
    /\ ~Occurs(mk, instruction)
    /\ \A v \in DOMAIN environ : ~Occurs(mk, environ[v])
    /\ \A i \in DOMAIN collected : ~Occurs(mk, collected[i])

ExactlyOnceInOrder ==
  /\ Count(EnvMarker, prompt) = 1
  /\ Count(HistoryMarker, prompt) = 1
  /\ Count(NowMarker, prompt) = 1
  /\ FirstAt(EnvMarker, prompt) < FirstAt(HistoryMarker, prompt)
  /\ FirstAt(HistoryMarker, prompt) < FirstAt(NowMarker, prompt)

\* C6 as stated: whatever the instruction, environment and history, the
\* prompt holds exactly one "# env", one "# history <n>" and one "# now:"
\* marker, in that order.
C6_ExactlyOneMarkerEach == pc = "Prompted" => ExactlyOnceInOrder

\* C6 amended: the prompt begins with the "# env" header line, a
\* "# history <n>" header line follows and a "# now:" line follows that, none
\* left out when a block is empty; each marker occurs exactly once when no
\* environment value, history line or instruction holds marker text itself.
C6_HeadersInOrder ==
  pc = "Prompted" =>
    /\ LineAt(EnvMarker, prompt, 1)
    /\ \E i, j \in 1..Len(prompt) :
         /\ 1 < i /\ i < j
         /\ LineAt(HistoryMarker, prompt, i)
         /\ LineStartAt(NowMarker, prompt, j)
    /\ PlainContent => ExactlyOnceInOrder

C6_Witness ==
  /\ pc = "Prompted"
  /\ DOMAIN environ = {}
  /\ collected = <<>>
  /\ instruction = <<>>
  /\ prompt = EnvMarker \o <<NL, NL>> \o HistoryMarker \o <<NL, NL>>
              \o NowMarker

Sanitized == pc \in {"Sanitized", "Editing"}

\* C7: a fenced block around a non-empty sequence of body lines, none of
\* which starts with a fence marker, is sanitized to the body lines joined by
\* newlines.
C7_RoundTrip ==
  (Sanitized /\ body # <<>>
     /\ \A i \in DOMAIN body : ~StartsWith(body[i], Fence)) =>
    /\ reply = <<BT, BT, BT, NL>> \o join(<<NL>>, body) \o <<NL, BT, BT, BT>>
    /\ command = join(<<NL>>, body)

C7_Witness ==
  /\ Sanitized
  /\ Len(body) = 2
  /\ body[1] = <<"a", SP>>
  /\ body[2] = <<>>
  /\ command = <<"a", SP, NL>>

\* the first line and the last line of the text both start with a fence marker
Fenced(text) ==
  LET lines == splitlines(text)
  IN /\ lines # <<>>
     /\ StartsWith(lines[1], Fence)
     /\ StartsWith(lines[Len(lines)], Fence)

\* "\r\n" and "\r" written as "\n"
RECURSIVE BreaksAsNL(_)
BreaksAsNL(s) ==
  IF s = <<>> THEN <<>>
  ELSE IF Head(s) = CR
       THEN IF Len(s) > 1 /\ s[2] = NL
            THEN <<NL>> \o BreaksAsNL(SubSeq(s, 3, Len(s)))
            ELSE <<NL>> \o BreaksAsNL(Tail(s))
  ELSE <<Head(s)>> \o BreaksAsNL(Tail(s))

DropFinalNL(s) ==
  IF s # <<>> /\ s[Len(s)] = NL THEN SubSeq(s, 1, Len(s) - 1) ELSE s

\* C8 as stated: a text whose first and last line do not both start with a
\* fence marker comes back unchanged, trailing newline or not.
C8_Unchanged ==
  (Sanitized /\ ~Fenced(reply)) => command = reply

\* C8 amended: such a text comes back as its lines joined by "\n": unchanged
\* when it is empty or when its only line breaks are "\n" and it does not end
\* with one; otherwise with every "\r\n" and "\r" written "\n" and one final
\* line break dropped.
C8_LinesRejoined ==
  (Sanitized /\ ~Fenced(reply)) =>
    /\ command = DropFinalNL(BreaksAsNL(reply))
    /\ (\A i \in DOMAIN reply : reply[i] # CR)
         /\ (reply = <<>> \/ reply[Len(reply)] # NL)
       => command = reply

C8_Witness ==
  /\ Sanitized
  /\ ~Fenced(reply)
  /\ reply = <<"a", NL, BT, BT, BT, NL>>
  /\ command = <<"a", NL, BT, BT, BT>>

\* C9: the notice is printed exactly when the sanitized command has more
\* than one line, and before the field opens; a multi-line command gets the
\* multi-line field and a single-line command the single-line field,
\* whatever the user types afterwards.
C9_NoticeIffMultiline ==
  LET multi == HasBreak(command)
  IN /\ ~InTrace("edit") => (Printed("notice") = 0 /\ field = "none")
     /\ InTrace("edit") =>
          /\ multi <=> Len(codeblock_lines(reply)) > 1
          /\ field = (IF multi THEN "multi" ELSE "single")
          /\ Printed("notice") = (IF multi THEN 1 ELSE 0)
          /\ multi => out[1] = Notice
          /\ prefill = command

C9_Witness ==
  /\ pc = "Executing"
  /\ field = "single"
  /\ out = <<>>
  /\ HasBreak(edited)
  /\ ~HasBreak(command)

\* C10: a reply of one line that starts with a fence marker is sanitized to
\* the empty string, whatever follows the marker, and the field opens
\* pre-filled with the empty command.
C10_OneFencedLineIsEmpty ==
  (Sanitized /\ Len(splitlines(reply)) = 1 /\ StartsWith(reply, Fence)) =>
    /\ command = <<>>
    /\ pc = "Editing" => (prefill = <<>> /\ field = "single" /\ out = <<>>)

C10_Witness ==
  /\ pc = "Editing"
  /\ reply = <<BT, BT, BT, "a", BT, BT, BT>>
  /\ command = <<>>
  /\ prefill = <<>>

====
